---------------------------- MODULE Spec2Model ----------------------------
(* rayopt/raytrace.py: the paraxial tracer (ParaxialTrace), its solves and *)
(* the full tracer's pupil sampler (FullTrace.get_rays), as state machines. *)
(* Numbers are exact rationals <<num, den>> extended with the IEEE-754     *)
(* non-finite values numpy produces: <<1,0>> = +inf, <<-1,0>> = -inf,      *)
(* <<0,0>> = nan.  numpy float64 arithmetic never raises on a division by  *)
(* zero (it warns and yields inf or nan), which is what RDiv models.       *)
EXTENDS Integers, Sequences, FiniteSets, TLC

----------------------------------------------------------------------------
(* Extended rational arithmetic (the float64 operators the source uses).   *)

Abs(a) == IF a < 0 THEN -a ELSE a

Sgn(a) == IF a < 0 THEN -1 ELSE IF a > 0 THEN 1 ELSE 0

RECURSIVE GCD(_, _)
GCD(a, b) == IF b = 0 THEN a ELSE GCD(b, a % b)

Norm(a, b) ==
    IF b = 0 THEN <<Sgn(a), 0>>
    ELSE LET g == GCD(Abs(a), Abs(b))
         IN  <<Sgn(b) * (a \div g), Abs(b) \div g>>

Q(a) == <<a, 1>>

NaN == <<0, 0>>

Inf == <<1, 0>>

\* Python's None, passed as the incoming index n0 of the first visited surface
None == <<0, -1>>

IsFinite(x) == x[2] > 0

IsZero(x) == x[2] > 0 /\ x[1] = 0

RNeg(x) == <<-x[1], x[2]>>

RAbs(x) == <<Abs(x[1]), x[2]>>

RAdd(a, b) ==
    IF a = NaN \/ b = NaN THEN NaN
    ELSE IF a[2] = 0 /\ b[2] = 0 THEN (IF a = b THEN a ELSE NaN)
    ELSE IF a[2] = 0 THEN a
    ELSE IF b[2] = 0 THEN b
    ELSE Norm(a[1] * b[2] + b[1] * a[2], a[2] * b[2])

RSub(a, b) == RAdd(a, RNeg(b))

RMul(a, b) ==
    IF a = NaN \/ b = NaN THEN NaN
    ELSE IF a[2] = 0 \/ b[2] = 0
         THEN (IF IsZero(a) \/ IsZero(b) THEN NaN ELSE <<Sgn(a[1]) * Sgn(b[1]), 0>>)
    ELSE Norm(a[1] * b[1], a[2] * b[2])

\* 1/x in float64: 1/0 = inf, 1/inf = 0 (signed zeros are not told apart)
RInv(x) ==
    IF x = NaN THEN NaN
    ELSE IF x[2] = 0 THEN Q(0)
    ELSE IF x[1] = 0 THEN Inf
    ELSE Norm(x[2], x[1])

RDiv(a, b) == RMul(a, RInv(b))

----------------------------------------------------------------------------
(* The optical system the tracers are bound to: object, one refracting     *)
(* surface, the aperture stop, the image.                                  *)

\* len(system)
Length == 4

Rows == 0 .. Length - 1

\* system.aperture_index
aperture_index == 2

\* ParaxialTrace.__init__(aberration_orders=4)
aberration_orders == 4

\* system.object.wavelengths (primary first), in units of 100 nm
wavelengths == <<5, 4, 6>>

Min(S) == CHOOSE m \in S : \A s \in S : m <= s

Max(S) == CHOOSE m \in S : \A s \in S : m >= s

Range(s) == {s[j] : j \in 1 .. Len(s)}

\* A surface: typ "O" object, "S" refracting sphere, "A" aperture stop,
\* "I" image; thickness is the distance from the previous surface, index the
\* refractive index behind the surface.
Surface(typ, radius, curvature, thickness, index, dispersion) ==
    [typ |-> typ, radius |-> radius, curvature |-> curvature,
     thickness |-> thickness, index |-> index, dispersion |-> dispersion]

\* The systems a trace is constructed on: the lens power and the distance
\* from the lens to the stop vary; with index 2, curvature 1 and stop
\* distance 2 the stop lies in the back focal plane of the lens, the
\* degenerate case in which the matrix entry find_rays divides by is zero.
Systems ==
    { [j \in Rows |->
         CASE j = 0 -> Surface("O", Q(objr), Q(0), Q(0), Q(1), Q(0))
           [] j = 1 -> Surface("S", Q(3), Q(curv), Q(1), Q(2), Q(1))
           [] j = 2 -> Surface("A", Q(1), Q(0), Q(t2), Q(2), Q(0))
           [] OTHER -> Surface("I", Q(3), Q(0), Q(2), Q(1), Q(0))]
      : objr \in {2}, curv \in {1, 2}, t2 \in {1, 2} }

----------------------------------------------------------------------------
(* The surface capabilities the tracer calls (rayopt.elements and          *)
(* rayopt.system): y' = y + t*u, then n0*u0 - n*u = y*c*(n - n0).          *)

\* el.propagate_paraxial(yu0, n0, l): the outgoing rays and index, or the
\* TypeError Python raises when a refracting surface computes with n0 = None
propagate_paraxial(el, yu0, n0) ==
    IF el.typ = "O"
    THEN [err |-> "", y |-> yu0.y, u |-> yu0.u, n |-> el.index]
    ELSE IF n0 = None
    THEN [err |-> "TypeError", y |-> yu0.y, u |-> yu0.u, n |-> n0]
    ELSE LET yy == [r \in 1 .. 2 |-> RAdd(yu0.y[r], RMul(el.thickness, yu0.u[r]))]
             uu == [r \in 1 .. 2 |->
                      RDiv(RSub(RMul(n0, yu0.u[r]),
                                RMul(RMul(yy[r], el.curvature), RSub(el.index, n0))),
                           el.index)]
         IN  [err |-> "", y |-> yy, u |-> uu, n |-> el.index]

\* el.aberration(y, u0, n0, n, kmax): the coefficient tensor, kept as the
\* application of the surface's function to its arguments
aberration(el, yy, u0, n0, n, kmax) ==
    [src |-> "aberration", typ |-> el.typ, y |-> yy, u0 |-> u0, n0 |-> n0,
     n |-> n, k |-> kmax]

\* el.dispersion(l)
dispersion(el) == el.dispersion

MatMul(a, b) ==
    [r \in 1 .. 2 |-> [s \in 1 .. 2 |->
        RAdd(RMul(a[r][1], b[1][s]), RMul(a[r][2], b[2][s]))]]

Identity == <<<<Q(1), Q(0)>>, <<Q(0), Q(1)>>>>

\* the matrix of one surface acting on (y, u): transfer, then refraction
SurfaceMatrix(el, n0) ==
    IF el.typ = "O" THEN Identity
    ELSE LET transfer == <<<<Q(1), el.thickness>>, <<Q(0), Q(1)>>>>
             refract  == <<<<Q(1), Q(0)>>,
                           <<RNeg(RDiv(RMul(el.curvature, RSub(el.index, n0)), el.index)),
                             RDiv(n0, el.index)>>>>
         IN  MatMul(refract, transfer)

\* system.paraxial_matrix(l, stop=stop): surfaces 0 .. stop-1
RECURSIVE paraxial_matrix(_, _)
paraxial_matrix(sys, stop) ==
    IF stop = 0 THEN Identity
    ELSE MatMul(SurfaceMatrix(sys[stop - 1],
                              IF stop = 1 THEN None ELSE sys[stop - 2].index),
                paraxial_matrix(sys, stop - 1))

Det(m) == RSub(RMul(m[1][1], m[2][2]), RMul(m[1][2], m[2][1]))

\* np.linalg.inv(m) of a non-singular 2x2 matrix
inv(m) ==
    LET d == Det(m)
    IN  <<<<RDiv(m[2][2], d), RNeg(RDiv(m[1][2], d))>>,
          <<RNeg(RDiv(m[2][1], d)), RDiv(m[1][1], d)>>>>

\* m[i, j] with Python's 0-based indices
At(m, i, j) == m[i + 1][j + 1]

\* m[::-1]: the rows in reverse order
Reversed(m) == <<m[2], m[1]>>

----------------------------------------------------------------------------
(* float64 division where its rounding decides a count: natural numbers    *)
(* wider than TLC's integers, as little-endian digits in base 2^13.        *)

LimbBase == 2 ^ 13

Big(a) == IF a = 0 THEN <<>> ELSE <<a>>

RECURSIVE BigMulSmall(_, _, _)
BigMulSmall(a, m, carry) ==
    IF a = <<>> THEN Big(carry)
    ELSE LET t == a[1] * m + carry
         IN  <<t % LimbBase>> \o BigMulSmall(Tail(a), m, t \div LimbBase)

RECURSIVE BigAdd(_, _, _)
BigAdd(a, b, carry) ==
    IF a = <<>> /\ b = <<>> THEN Big(carry)
    ELSE LET t == (IF a = <<>> THEN 0 ELSE a[1]) + (IF b = <<>> THEN 0 ELSE b[1]) + carry
         IN  <<t % LimbBase>> \o
             BigAdd(IF a = <<>> THEN a ELSE Tail(a), IF b = <<>> THEN b ELSE Tail(b),
                    t \div LimbBase)

RECURSIVE BigShl(_, _)
BigShl(a, e) ==
    IF e >= 13 THEN <<0>> \o BigShl(a, e - 13) ELSE BigMulSmall(a, 2 ^ e, 0)

Limb(a, j) == IF j <= Len(a) THEN a[j] ELSE 0

\* a < b, compared from the most significant digit j down
RECURSIVE BigLessFrom(_, _, _)
BigLessFrom(a, b, j) ==
    IF j = 0 THEN FALSE
    ELSE IF Limb(a, j) # Limb(b, j) THEN Limb(a, j) < Limb(b, j)
    ELSE BigLessFrom(a, b, j - 1)

BigLess(a, b) == BigLessFrom(a, b, IF Len(a) > Len(b) THEN Len(a) ELSE Len(b))

\* floor(a / k) and a mod k for a divisor k < 2^13, from digit j down
RECURSIVE BigDivSmall(_, _, _, _)
BigDivSmall(a, k, j, rem) ==
    IF j = 0 THEN [q |-> <<>>, r |-> rem]
    ELSE LET t    == rem * LimbBase + a[j]
             rest == BigDivSmall(a, k, j - 1, t % k)
         IN  [q |-> Append(rest.q, t \div k), r |-> rest.r]

RECURSIVE Log2(_)
Log2(k) == IF k < 2 THEN 0 ELSE 1 + Log2(k \div 2)

\* 2*np.pi as a float64: the 53-bit mantissa 0x1921fb54442d18 (little-endian
\* base-2^13 digits), times 2^-50
TwoPiMantissa == <<3352, 545, 7893, 4675, 1>>

\* the 53-bit mantissa of the float64 2*np.pi/k and the shift sh with
\* 2*np.pi/k = mantissa * 2^(-50-sh): the quotient rounded to nearest, ties
\* to even
StepMantissa(k) ==
    LET p    == Log2(k)
        at_p == BigShl(TwoPiMantissa, p)
        sh   == IF BigLess(BigDivSmall(at_p, k, Len(at_p), 0).q, BigShl(<<1>>, 52))
                THEN p + 1 ELSE p
        num  == BigShl(TwoPiMantissa, sh)
        qr   == BigDivSmall(num, k, Len(num), 0)
        up   == 2 * qr.r > k \/ (2 * qr.r = k /\ qr.q[1] % 2 = 1)
    IN  [m |-> IF up THEN BigAdd(qr.q, <<1>>, 0) ELSE qr.q, sh |-> sh, num |-> num]

\* len(np.arange(0, 2*np.pi, 2*np.pi/k)) = ceil((2*np.pi - 0)/(2*np.pi/k)) in
\* float64, for 1 <= k < 2^13.  The quotient 2*np.pi/step lies next to k; it
\* rounds to a float above k, and the length is k + 1, exactly when it
\* exceeds k by more than half the spacing 2^(p-52) of the floats at k.
ArangeLen(k) ==
    LET p    == Log2(k)
        step == StepMantissa(k)
    IN  IF BigLess(BigAdd(BigShl(BigMulSmall(step.m, k, 0), 53 - p), step.m, 0),
                   BigShl(step.num, 53 - p))
        THEN k + 1
        ELSE k

----------------------------------------------------------------------------
(* State.                                                                  *)

VARIABLES
    system,   \* the OpticalSystem: surface records by index
    finite,   \* system.object.finite
    y, u,     \* ParaxialTrace.y, .u: row -> <<marginal, chief>>
    z, n, v,  \* ParaxialTrace.z, .n, .v: row -> number
    c, d,     \* ParaxialTrace.c, .d: row -> coefficient tensor
    call,     \* the last operation: name, arguments, what it visited and wrote, how it ended
    ret,      \* what the last FullTrace operation returned
    ft,       \* the FullTrace engine: nrays and its arrays
    nops      \* operations performed so far

vars == <<system, finite, y, u, z, n, v, c, d, call, ret, ft, nops>>

\* self.l = [l[0], min(l), max(l)]
TraceWavelengths ==
    <<wavelengths[1], Min(Range(wavelengths)), Max(Range(wavelengths))>>

\* What np.empty hands out is whatever the memory held; the fill is drawn
\* from this set at each allocation.
Garbage == {Q(0), Q(7)}

EmptyTensor(g, k) ==
    [src |-> "empty", typ |-> "", y |-> <<g, g>>, u0 |-> <<g, g>>, n0 |-> g,
     n |-> g, k |-> k]

Arrays == {"y", "u", "z", "n", "v", "c", "d"}

NoCall(op) ==
    [op |-> op, name |-> "", start |-> 0, stop |-> 0, visits |-> <<>>,
     written |-> {}, err |-> ""]

----------------------------------------------------------------------------
(* ParaxialTrace.                                                          *)

\* allocate(k): every array is np.empty
allocate(g, k) ==
    [y |-> [i \in Rows |-> <<g, g>>],
     u |-> [i \in Rows |-> <<g, g>>],
     z |-> [i \in Rows |-> g],
     v |-> [i \in Rows |-> g],
     n |-> [i \in Rows |-> g],
     c |-> [i \in Rows |-> EmptyTensor(g, k)],
     d |-> [i \in Rows |-> EmptyTensor(g, k)]]

\* the two closed-form expressions of find_rays, on the matrix mx
ClosedForm(mx, r, cc) ==
    <<RSub(RMul(r, At(mx, 0, 0)),
           RDiv(RMul(RMul(r, At(mx, 0, 1)), At(mx, 1, 0)), At(mx, 1, 1))),
      RDiv(RMul(cc, At(mx, 0, 1)), At(mx, 1, 1))>>

\* the matrix find_rays evaluates the closed forms on: mi, also in the
\* branch that binds m to mi[::-1]
SolveMatrix(mi, fin) == mi

\* whether find_rays exchanges the storage of height and slope
Exchanged(fin) == fin

\* find_rays(): the new rows 0 of y and u
find_rays(sys, fin, yy, uu) ==
    LET ai == aperture_index
        m  == paraxial_matrix(sys, ai + 1)
    IN  IF Det(m) = Q(0)
        THEN [err |-> "LinAlgError", y |-> yy, u |-> uu]
        ELSE LET mi == inv(m)
                 r  == sys[ai].radius
                 cc == sys[0].radius
                 cf == ClosedForm(SolveMatrix(mi, fin), r, cc)
                 solved == <<cf[1], cf[2]>>
                 fixed  == <<Q(0), cc>>
             IN  IF Exchanged(fin)
                 THEN [err |-> "",
                       y |-> [yy EXCEPT ![0] = fixed],
                       u |-> [uu EXCEPT ![0] = solved]]
                 ELSE [err |-> "",
                       y |-> [yy EXCEPT ![0] = solved],
                       u |-> [uu EXCEPT ![0] = fixed]]

\* stop=None
NoStop == -1

\* range(start, stop or self.length): None and 0 are both falsy
RangeEnd(stop) == IF stop = NoStop \/ stop = 0 THEN Length ELSE stop

\* yu0, n0 = yu, n: what the next surface is handed
Carry(prev, out) == out

\* the loop of propagate from surface i on; st holds the arrays, the
\* surfaces visited with what each was handed, and the cells written
RECURSIVE PropagateFrom(_, _, _, _, _, _)
PropagateFrom(sys, i, end, st, in, zz) ==
    IF i >= end THEN st
    ELSE IF i >= Length THEN [st EXCEPT !.err = "IndexError"]
    ELSE LET el    == sys[i]
             z1    == IF i > 0 THEN RAdd(zz, el.thickness) ELSE zz
             visit == [i |-> i, y |-> in.y, u |-> in.u, n0 |-> in.n, z |-> zz]
             out   == propagate_paraxial(el, [y |-> in.y, u |-> in.u], in.n)
         IN  IF out.err # ""
             THEN [st EXCEPT !.err = out.err, !.visits = Append(@, visit)]
             ELSE PropagateFrom(sys, i + 1, end,
                    [st EXCEPT !.y[i] = out.y, !.u[i] = out.u,
                               !.n[i] = out.n, !.z[i] = z1,
                               !.c[i] = aberration(el, out.y, in.u, in.n, out.n,
                                                   st.c[i].k),
                               !.v[i] = dispersion(el),
                               !.visits = Append(@, visit),
                               !.written = @ \cup ({"y", "u", "n", "z", "c", "v"} \X {i})],
                    Carry(in, [y |-> out.y, u |-> out.u, n |-> out.n]), z1)

\* propagate(start, stop)
propagate(sys, start, stop, yy, uu, zz, nn, vv, cc) ==
    PropagateFrom(sys, start, RangeEnd(stop),
        [y |-> yy, u |-> uu, z |-> zz, n |-> nn, v |-> vv, c |-> cc,
         visits |-> <<>>, written |-> {}, err |-> ""],
        [y |-> yy[0], u |-> uu[0], n |-> None], Q(0))

\* system[:], the object surface included
EveryRow == 0 .. Length - 1

\* system[1:], the surfaces size_elements sets the radius of
SizedRows == 1 .. Length - 1

\* size_elements(): e.radius = np.fabs(y).sum() for e, y in zip(system[1:], y[1:])
size_elements(sys, yy) ==
    [i \in Rows |->
        IF i \in SizedRows
        THEN [sys[i] EXCEPT !.radius = RAdd(RAbs(yy[i][1]), RAbs(yy[i][2]))]
        ELSE sys[i]]

\* focal_plane_solve(): system.image.thickness -= y[-1, 0]/u[-1, 0]
focal_plane_solve(sys, yy, uu) ==
    [sys EXCEPT ![Length - 1].thickness =
        RSub(@, RDiv(yy[Length - 1][1], uu[Length - 1][1]))]

\* focal_length_solve(f, i): self.n is one-dimensional, so the two-index
\* read self.n[(i-1, i), :] raises IndexError before the curvature is set
focal_length_solve(sys, f, i, yy, uu, nn) ==
    [err |-> "IndexError", system |-> sys]

----------------------------------------------------------------------------
(* FullTrace.get_rays: the pupil sampler.                                  *)

\* A pupil point in cartesian (x, y); the points of one hexapolar ring are
\* held together as an arc.
Cart(x, yv) == [polar |-> FALSE, x |-> x, y |-> yv, rho |-> Q(0), m |-> 0, count |-> 1]

\* the count points rho*(sin a, cos a) at the angles a = j*2pi/m, j = 0 .. count-1
Arc(rho, m, count) ==
    [polar |-> TRUE, x |-> Q(0), y |-> Q(0), rho |-> rho, m |-> m, count |-> count]

\* the number of points a result holds
RECURSIVE CountIn(_, _, _)
CountIn(pts, lo, hi) ==
    IF lo > hi THEN 0
    ELSE IF lo = hi THEN pts[lo].count
    ELSE CountIn(pts, lo, (lo + hi) \div 2) + CountIn(pts, ((lo + hi) \div 2) + 1, hi)

Count(pts) == CountIn(pts, 1, Len(pts))

\* x^2 + y^2 (sin^2 + cos^2 = 1 on a ring)
NormSq(p) ==
    IF p.polar THEN RMul(p.rho, p.rho)
    ELSE RAdd(RMul(p.x, p.x), RMul(p.y, p.y))

RLeq(a, b) == a[1] * b[2] <= b[1] * a[2]

\* (xy**2).sum(0) <= 1
InDisk(p) == RLeq(NormSq(p), Q(1))

\* np.linspace(a, b, num)
linspace(a, b, num) ==
    [j \in 1 .. num |->
        IF num = 1 THEN Q(a) ELSE RAdd(Q(a), Norm((j - 1) * (b - a), num - 1))]

\* np.zeros((num,))
zeros(num) == [j \in 1 .. num |-> Q(0)]

Columns(xs, ys) == [j \in 1 .. Len(xs) |-> Cart(xs[j], ys[j])]

\* a*pi <= b for naturals a, b: 355/113 stands for pi, which decides the
\* comparison as long as a < 113
PiLeq(a, b) == a * 355 <= b * 113

\* the integer part of a/pi
RECURSIVE FloorOverPi(_, _)
FloorOverPi(a, k) == IF PiLeq(k + 1, a) THEN FloorOverPi(a, k + 1) ELSE k

\* np.around(np.sqrt(n*4/np.pi)): the k with (k - 1/2)^2 <= 4n/pi < (k + 1/2)^2
RECURSIVE Side(_, _)
Side(nrays, k) ==
    IF PiLeq((2 * k + 1) * (2 * k + 1), 16 * nrays) THEN Side(nrays, k + 1) ELSE k

\* np.mgrid[-1:1:1j*r, -1:1:1j*r], ravelled: x varies slowest
Grid(r) ==
    LET lin == linspace(-1, 1, r)
    IN  [j \in 1 .. r * r |-> Cart(lin[((j - 1) \div r) + 1], lin[((j - 1) % r) + 1])]

\* k <= sqrt(n/3 - 1/12), that is 12k^2 + 1 <= 4n, written with divisions
\* so that no intermediate value exceeds 32 bits
RingFits(nrays, k) == k = 0 \/ k <= ((4 * nrays - 1) \div 12) \div k

\* int(np.around(np.sqrt(n/3. - 1/12.) - 1/2.)) for n >= 1: the k with
\* k <= sqrt(n/3 - 1/12) < k + 1
Rings(nrays) ==
    CHOOSE k \in 0 .. nrays : RingFits(nrays, k) /\ ~RingFits(nrays, k + 1)

\* the points ring i appends: one per element of np.arange(0, 2pi, 2pi/(6i))
Ring(i, r) == <<Arc(Norm(i, r), 6 * i, ArangeLen(6 * i))>>

\* np.concatenate of the rings lo .. hi of an r-ring pattern, in order
RECURSIVE Hexapolar(_, _, _)
Hexapolar(lo, hi, r) ==
    IF lo > hi THEN <<>>
    ELSE IF lo = hi THEN Ring(lo, r)
    ELSE Hexapolar(lo, (lo + hi) \div 2, r) \o Hexapolar(((lo + hi) \div 2) + 1, hi, r)

\* a division that rounds up instead
IntDivCeil(a, b) == (a + b - 1) \div b

\* n/2, n/3, 2*n/3 on Python 2 integers
IntDiv(a, b) == a \div b

Points(pts) == [kind |-> "points", err |-> "", pts |-> pts]

Raise(err) == [kind |-> "raise", err |-> err, pts |-> <<>>]

\* the value of a function that falls off its end
ReturnsNone == [kind |-> "None", err |-> "", pts |-> <<>>]

\* get_rays(distribution, nrays); cand are the points np.random.rand drew
get_rays(distribution, nrays, cand) ==
    CASE distribution = "random" -> Points(SelectSeq(cand, InDisk))
      [] distribution = "meridional" ->
            Points(Columns(linspace(-1, 1, nrays), zeros(nrays)))
      [] distribution = "sagittal" ->
            Points(Columns(zeros(nrays), linspace(-1, 1, nrays)))
      [] distribution \in {"square", "triangular"} ->
            Points(SelectSeq(Grid(Side(nrays, 0)), InDisk))
      [] distribution = "hexapolar" ->
            IF nrays = 0 THEN Raise("ValueError")
            ELSE Points(<<Cart(Q(0), Q(0))>> \o Hexapolar(1, Rings(nrays), Rings(nrays)))
      [] distribution = "cross" ->
            Points(Columns(linspace(-1, 1, IntDiv(nrays, 2)), zeros(IntDiv(nrays, 2)))
                   \o Columns(zeros(IntDiv(nrays, 2)), linspace(-1, 1, IntDiv(nrays, 2))))
      [] distribution = "tee" ->
            Points(Columns(linspace(-1, 1, IntDiv(2 * nrays, 3)),
                           zeros(IntDiv(2 * nrays, 3)))
                   \o Columns(zeros(IntDiv(nrays, 3)), linspace(0, 1, IntDiv(nrays, 3))))
      [] OTHER -> ReturnsNone

\* the candidates 2*np.random.rand(2, n*4/np.pi) - 1 can draw, sampled
RandomCandidates == {Cart(Q(0), Q(0)), Cart(Q(1), Q(-1)), Cart(Norm(-1, 2), Norm(1, 2))}

Distributions ==
    {"random", "meridional", "sagittal", "square", "triangular", "hexapolar",
     "cross", "tee"}

\* a name get_rays does not know
UnknownName == "spiral"

----------------------------------------------------------------------------
(* FullTrace: the engine's ray count and arrays.                           *)

\* the arrays allocate sizes by nrays
FtArrays == {"y", "u", "l", "n", "t"}

\* FullTrace.allocate(nrays): dim is the ray dimension of each array, rays
\* what row 0 holds, traced whether propagate filled the rows, allocs how
\* often the arrays were allocated
ft_allocate(f, nrays) ==
    [nrays |-> nrays, dim |-> [a \in FtArrays |-> nrays], rays |-> "empty",
     traced |-> FALSE, allocs |-> f.allocs + 1]

\* FullTrace(system, nrays) before its allocate
Unallocated == [nrays |-> 0, dim |-> [a \in FtArrays |-> 0], rays |-> "empty",
                traced |-> FALSE, allocs |-> 0]

\* FullTrace.propagate(clip): every row of y, u, n, t, z is assigned
ft_propagate(f) == [f EXCEPT !.traced = TRUE, !.rays = "traced"]

\* rays_like_paraxial(paraxial): l and y[0] are set, then the two paraxial
\* heights are broadcast into the nrays slots of y[0, :, 0]
rays_like_paraxial(f) ==
    IF f.dim["y"] = 2
    THEN [ft |-> [f EXCEPT !.rays = "like_paraxial"], ret |-> ReturnsNone]
    ELSE [ft |-> [f EXCEPT !.rays = "zeroed"], ret |-> Raise("ValueError")]

\* rays_for_point(paraxial, height, wavelength, nrays, distribution), given
\* what get_rays returned: xp, yp = None is a TypeError
rays_for_point(f, got) ==
    CASE got.kind = "None" -> [ft |-> f, ret |-> Raise("TypeError")]
      [] got.kind = "raise" -> [ft |-> f, ret |-> got]
      [] OTHER -> [ft |-> [ft_allocate(f, Count(got.pts)) EXCEPT !.rays = "for_point"],
                   ret |-> ReturnsNone]

\* rays_for_object(paraxial, wavelength, nrays): self.nrays = nrays*3, then
\* self.allocate() without its argument is a TypeError
rays_for_object(f, nrays) ==
    [ft |-> [f EXCEPT !.nrays = nrays * 3], ret |-> Raise("TypeError")]

----------------------------------------------------------------------------
(* Bounds.                                                                 *)

\* operations per behaviour
MaxOps == 2

\* the largest ray count asked of the sampler
MaxRays == 12

\* the largest ray count asked of the random distribution
MaxRandom == 2

\* a ray count whose hexapolar pattern has 115 rings
ManyRays == 39676

\* FullTrace(system, nrays)
InitRays == 2

----------------------------------------------------------------------------
(* Actions.                                                                *)

EngineUnchanged == UNCHANGED <<ret, ft>>

\* ParaxialTrace(system): allocate(aberration_orders), then find_rays();
\* FullTrace(system, InitRays): allocate(InitRays)
Constructed(sys, fin, g) ==
    \E a \in {allocate(g, aberration_orders)} :
       \E f \in {find_rays(sys, fin, a.y, a.u)} :
          /\ system = sys
          /\ finite = fin
          /\ y = f.y /\ u = f.u
          /\ z = a.z /\ n = a.n /\ v = a.v /\ c = a.c /\ d = a.d
          /\ ret = [kind |-> "", err |-> "", pts |-> <<>>]
          /\ ft = ft_allocate(Unallocated, InitRays)
          /\ nops = 0

Init ==
    /\ \E sys \in Systems, fin \in BOOLEAN, g \in Garbage : Constructed(sys, fin, g)
    /\ call = NoCall("__init__")

Allocate(g, k) ==
    /\ nops < MaxOps
    /\ \E a \in {allocate(g, k)} :
           /\ y' = a.y /\ u' = a.u /\ z' = a.z /\ n' = a.n /\ v' = a.v
           /\ c' = a.c /\ d' = a.d
    /\ call' = NoCall("allocate")
    /\ nops' = nops + 1
    /\ UNCHANGED <<system, finite>>
    /\ EngineUnchanged

FindRays ==
    /\ nops < MaxOps
    /\ \E f \in {find_rays(system, finite, y, u)} :
           /\ y' = f.y /\ u' = f.u
           /\ call' = [NoCall("find_rays") EXCEPT !.err = f.err]
    /\ nops' = nops + 1
    /\ UNCHANGED <<system, finite, z, n, v, c, d>>
    /\ EngineUnchanged

Propagate(start, stop) ==
    /\ nops < MaxOps
    /\ \E p \in {propagate(system, start, stop, y, u, z, n, v, c)} :
           /\ y' = p.y /\ u' = p.u /\ z' = p.z /\ n' = p.n /\ v' = p.v
           /\ c' = p.c
           /\ call' = [op |-> "propagate", name |-> "", start |-> start,
                       stop |-> stop, visits |-> p.visits,
                       written |-> p.written, err |-> p.err]
    /\ nops' = nops + 1
    /\ UNCHANGED <<system, finite, d>>
    /\ EngineUnchanged

SizeElements ==
    /\ nops < MaxOps
    /\ system' = size_elements(system, y)
    /\ call' = NoCall("size_elements")
    /\ nops' = nops + 1
    /\ UNCHANGED <<finite, y, u, z, n, v, c, d>>
    /\ EngineUnchanged

FocalLengthSolve(f, i) ==
    /\ nops < MaxOps
    /\ \E r \in {focal_length_solve(system, f, i, y, u, n)} :
           /\ system' = r.system
           /\ call' = [NoCall("focal_length_solve") EXCEPT !.start = i, !.err = r.err]
    /\ nops' = nops + 1
    /\ UNCHANGED <<finite, y, u, z, n, v, c, d>>
    /\ EngineUnchanged

FocalPlaneSolve ==
    /\ nops < MaxOps
    /\ system' = focal_plane_solve(system, y, u)
    /\ call' = NoCall("focal_plane_solve")
    /\ nops' = nops + 1
    /\ UNCHANGED <<finite, y, u, z, n, v, c, d>>
    /\ EngineUnchanged

ParaxialUnchanged == UNCHANGED <<system, finite, y, u, z, n, v, c, d>>

\* the candidates the random distribution draws: int(n*4/pi) of them
Draws(distribution, nrays) ==
    IF distribution = "random"
    THEN [1 .. FloorOverPi(4 * nrays, 0) -> RandomCandidates]
    ELSE {<<>>}

GetRays(distribution, nrays) ==
    /\ nops < MaxOps
    /\ \E cand \in Draws(distribution, nrays) :
          ret' = get_rays(distribution, nrays, cand)
    /\ call' = [NoCall("get_rays") EXCEPT !.name = distribution, !.start = nrays]
    /\ nops' = nops + 1
    /\ UNCHANGED ft
    /\ ParaxialUnchanged

RaysForPoint(distribution, nrays) ==
    /\ nops < MaxOps
    /\ \E cand \in Draws(distribution, nrays) :
          \E r \in {rays_for_point(ft, get_rays(distribution, nrays, cand))} :
             /\ ft' = r.ft
             /\ ret' = r.ret
    /\ call' = [NoCall("rays_for_point") EXCEPT !.name = distribution, !.start = nrays]
    /\ nops' = nops + 1
    /\ ParaxialUnchanged

RaysLikeParaxial ==
    /\ nops < MaxOps
    /\ \E r \in {rays_like_paraxial(ft)} :
          /\ ft' = r.ft
          /\ ret' = r.ret
    /\ call' = NoCall("rays_like_paraxial")
    /\ nops' = nops + 1
    /\ ParaxialUnchanged

RaysForObject(nrays) ==
    /\ nops < MaxOps
    /\ \E r \in {rays_for_object(ft, nrays)} :
          /\ ft' = r.ft
          /\ ret' = r.ret
    /\ call' = [NoCall("rays_for_object") EXCEPT !.start = nrays]
    /\ nops' = nops + 1
    /\ ParaxialUnchanged

FtAllocate(nrays) ==
    /\ nops < MaxOps
    /\ ft' = ft_allocate(ft, nrays)
    /\ ret' = ReturnsNone
    /\ call' = [NoCall("ft_allocate") EXCEPT !.start = nrays]
    /\ nops' = nops + 1
    /\ ParaxialUnchanged

FtPropagate ==
    /\ nops < MaxOps
    /\ ft' = ft_propagate(ft)
    /\ ret' = ReturnsNone
    /\ call' = NoCall("ft_propagate")
    /\ nops' = nops + 1
    /\ ParaxialUnchanged

\* one sampler call on the arguments Init drew
Sample ==
    /\ call.op = "input"
    /\ \E cand \in Draws(call.name, call.start) :
          ret' = get_rays(call.name, call.start, cand)
    /\ call' = [call EXCEPT !.op = "get_rays"]
    /\ nops' = nops + 1
    /\ UNCHANGED ft
    /\ ParaxialUnchanged

Next ==
    \/ \E g \in Garbage : Allocate(g, aberration_orders)
    \/ FindRays
    \/ \E start \in {0, 1}, stop \in {NoStop, 2} : Propagate(start, stop)
    \/ SizeElements
    \/ \E f \in {1, 2}, i \in {NoStop, 1} : FocalLengthSolve(Q(f), i)
    \/ FocalPlaneSolve
    \/ \E dist \in {"meridional", UnknownName} : GetRays(dist, InitRays)
    \/ \E dist \in {"meridional", UnknownName} : RaysForPoint(dist, InitRays)
    \/ RaysLikeParaxial
    \/ RaysForObject(InitRays)
    \/ FtAllocate(InitRays + 1)
    \/ FtPropagate

Spec == Init /\ [][Next]_vars

\* propagate over every start and stop
NextPropagate ==
    \E start \in 0 .. Length, stop \in {NoStop} \cup (0 .. Length) :
       Propagate(start, stop)

SpecPropagate == Init /\ [][NextPropagate]_vars

\* the FullTrace engine on one constructed paraxial trace
OneSystem == CHOOSE sys \in Systems : sys[1].curvature = Q(1) /\ sys[2].thickness = Q(1)

InitFull ==
    /\ Constructed(OneSystem, TRUE, Q(0))
    /\ call = NoCall("__init__")

NextFull ==
    \/ \E dist \in Distributions \cup {UnknownName}, nrays \in 0 .. MaxRandom :
          GetRays(dist, nrays)
    \/ \E dist \in Distributions \cup {UnknownName}, nrays \in 0 .. MaxRandom :
          RaysForPoint(dist, nrays)
    \/ RaysLikeParaxial
    \/ \E nrays \in 0 .. MaxRandom : RaysForObject(nrays)
    \/ \E nrays \in 0 .. MaxRandom : FtAllocate(nrays)
    \/ FtPropagate

SpecFull == InitFull /\ [][NextFull]_vars

\* the sampler as a function: Init draws the arguments, Sample applies it
SamplerInputs ==
    (((Distributions \ {"random"}) \cup {UnknownName}) \X (0 .. MaxRays))
    \cup ({"random"} \X (0 .. MaxRandom))
    \cup {<<"hexapolar", ManyRays>>}

InitSampler ==
    /\ Constructed(OneSystem, TRUE, Q(0))
    /\ \E in \in SamplerInputs :
          call = [NoCall("input") EXCEPT !.name = in[1], !.start = in[2]]

SpecSampler == InitSampler /\ [][Sample]_vars

----------------------------------------------------------------------------
(* Properties.                                                             *)

\* a default, successful propagate() was the last operation
AfterPropagate ==
    call.op = "propagate" /\ call.start = 0 /\ call.stop = NoStop /\ call.err = ""

\* rows an earlier propagate has filled
Filled(i) == c[i].src = "aberration"

\* C1: every surface propagate(start, stop) visits is handed the outgoing
\* rays, index and axial position of the surface before it (surface 0: the
\* row-0 rays and no index), also the first one visited when start > 0 and
\* the rows before start hold an earlier trace.
C1_IncomingIsPreviousOutgoing ==
    (call.op = "propagate" /\ \A j \in Rows : j < call.start => Filled(j))
    => \A k \in 1 .. Len(call.visits) :
          LET visit == call.visits[k]
          IN  IF visit.i = 0
              THEN visit.y = y[0] /\ visit.u = u[0] /\ visit.n0 = None
              ELSE /\ visit.y = y[visit.i - 1]
                   /\ visit.u = u[visit.i - 1]
                   /\ visit.n0 = n[visit.i - 1]
                   /\ visit.z = z[visit.i - 1]

\* C2: a propagate(start, stop) that returns has visited exactly the
\* surfaces start, start+1, .., stop-1, in this order; stop = None stands
\* for the system length, stop = 0 for the empty range.
C2_VisitsExactlyRange ==
    (call.op = "propagate" /\ call.err = "")
    => LET end   == IF call.stop = NoStop THEN Length ELSE call.stop
           count == IF end > call.start THEN end - call.start ELSE 0
       IN  [k \in 1 .. Len(call.visits) |-> call.visits[k].i]
              = [k \in 1 .. count |-> call.start + k - 1]

\* C3: a successful propagate() has written every row of y, u, z, n, v, c
\* and d; no row of the tensors is as allocate left it.
C3_PropagateOverwritesAll ==
    AfterPropagate
    => /\ call.written = Arrays \X Rows
       /\ \A i \in Rows : c[i].src # "empty" /\ d[i].src # "empty"

\* the inverse of the matrix up to the stop, as find_rays computes it
StopInverse == inv(paraxial_matrix(system, aperture_index + 1))

\* find_rays was the last operation (construction ends with it) and returned
AfterFindRays == call.op \in {"__init__", "find_rays"} /\ call.err = ""

\* C4: find_rays stores a finite object's closed-form results, computed
\* from the unreversed inverse, in the height slots with 0 and c in the
\* slope slots; for an infinite object the closed forms are computed from
\* the row-reversed inverse and stored in the slope slots, 0 and c in the
\* height slots.
C4_BranchByFinite ==
    AfterFindRays
    => LET r  == system[aperture_index].radius
           cc == system[0].radius
       IN  IF finite
           THEN /\ y[0] = ClosedForm(StopInverse, r, cc)
                /\ u[0] = <<Q(0), cc>>
           ELSE /\ u[0] = ClosedForm(Reversed(StopInverse), r, cc)
                /\ y[0] = <<Q(0), cc>>

\* C5: find_rays on a system whose inverse has a zero [1,1] entry ends in
\* a domain error, and row 0 of y and u holds no non-finite value.
C5_ZeroDivisorRaises ==
    (call.op = "find_rays" /\ IsZero(At(StopInverse, 1, 1)))
    => /\ call.err = "DomainError"
       /\ \A k \in 1 .. 2 : IsFinite(y[0][k]) /\ IsFinite(u[0][k])

\* C6: a get_rays or rays_for_point call with a name that is not one of the
\* eight distributions raises ConfigurationError, and the FullTrace arrays
\* are as they were.
C6_UnknownNameRaises ==
    [][(call'.op \in {"get_rays", "rays_for_point"} /\ call'.name \notin Distributions)
       => (ret'.kind = "raise" /\ ret'.err = "ConfigurationError" /\ ft' = ft)]_vars

\* C7: get_rays("hexapolar", n) with n >= 1 returns 3r^2 + 3r + 1 points
\* for the ring count r: the centre, then for each i in 1 .. r exactly 6i
\* points at radius i/r, all of them within the unit disk.
C7_HexapolarCount ==
    (call.op = "get_rays" /\ call.name = "hexapolar" /\ call.start >= 1)
    => LET r == Rings(call.start)
       IN  /\ ret.kind = "points"
           /\ Count(ret.pts) = 3 * r * r + 3 * r + 1
           /\ Len(ret.pts) = r + 1
           /\ ret.pts[1] = Cart(Q(0), Q(0))
           /\ \A i \in 1 .. r : ret.pts[i + 1] = Arc(Norm(i, r), 6 * i, 6 * i)
           /\ \A k \in 1 .. Len(ret.pts) : InDisk(ret.pts[k])

\* points on the x-axis between lo and 1
OnXAxis(p, lo) == p.y = Q(0) /\ RLeq(Q(lo), p.x) /\ RLeq(p.x, Q(1))

\* points on the y-axis between lo and 1
OnYAxis(p, lo) == p.x = Q(0) /\ RLeq(Q(lo), p.y) /\ RLeq(p.y, Q(1))

\* C8: get_rays("cross", n) returns floor(n/2) points on the x-axis and then
\* floor(n/2) on the y-axis; get_rays("tee", n) returns floor(2n/3) points
\* on the x-axis and then floor(n/3) on the positive y-axis.
C8_FloorCounts ==
    (call.op = "get_rays" /\ call.name \in {"cross", "tee"})
    => LET nx == IF call.name = "cross" THEN call.start \div 2
                 ELSE (2 * call.start) \div 3
           ny == IF call.name = "cross" THEN call.start \div 2
                 ELSE call.start \div 3
           lo == IF call.name = "cross" THEN -1 ELSE 0
       IN  /\ ret.kind = "points"
           /\ Count(ret.pts) = nx + ny
           /\ Len(ret.pts) = nx + ny
           /\ \A k \in 1 .. Len(ret.pts) :
                 IF k <= nx THEN OnXAxis(ret.pts[k], -1) ELSE OnYAxis(ret.pts[k], lo)

\* C8 witness: tee with 5 rays, 3 on the x-axis and 1 on the y-axis
C8_Witness ==
    /\ call.op = "get_rays" /\ call.name = "tee" /\ call.start = 5
    /\ Count(ret.pts) = 4

\* surface i of the system differs at most in the attribute attr
OnlyAttr(i, attr) ==
    \A a \in (DOMAIN system[i]) \ {attr} : system'[i][a] = system[i][a]

\* only surface `target` of the system changes, and only in the attribute attr
OnlyTarget(target, attr) ==
    \A i \in Rows : IF i \in target THEN OnlyAttr(i, attr) ELSE system'[i] = system[i]

Solves == {"size_elements", "focal_length_solve", "focal_plane_solve"}

\* C9: the system's surfaces change only in a solve: size_elements changes
\* only radii of surfaces 1 .. last, focal_length_solve only the curvature of
\* surface i (length - 2 by default), focal_plane_solve only the thickness
\* of the image surface; every other operation leaves the system as it was.
C9_OnlySolvesMutate ==
    [][/\ call'.op \notin Solves => system' = system
       /\ call'.op = "size_elements" => OnlyTarget(1 .. Length - 1, "radius")
       /\ call'.op = "focal_length_solve" =>
             OnlyTarget({IF call'.start = NoStop THEN Length - 2 ELSE call'.start},
                        "curvature")
       /\ call'.op = "focal_plane_solve" => OnlyTarget({Length - 1}, "thickness")
       /\ finite' = finite]_vars

\* C9 witness: size_elements has given a surface a radius no constructed
\* system has, and the object surface is one of a constructed system
C9_Witness ==
    /\ call.op = "size_elements"
    /\ system \notin Systems
    /\ \E sys \in Systems : sys[0] = system[0]

\* the Lagrange invariant at row i
LagrangeAt(i) ==
    RMul(n[i], RSub(RMul(u[i][1], y[i][2]), RMul(u[i][2], y[i][1])))

\* the lagrange property: the invariant from row 0
lagrange == LagrangeAt(0)

\* equal to numerical tolerance: never so for a non-finite value
Close(a, b) == IsFinite(a) /\ IsFinite(b) /\ a = b

\* C10: after propagate() the Lagrange invariant at every row equals the
\* value of the lagrange property.
C10_LagrangeConserved ==
    AfterPropagate => \A i \in Rows : Close(LagrangeAt(i), lagrange)

\* where the starting rays are finite the invariant is conserved
LagrangeConservedWhereFinite ==
    (/\ AfterPropagate
     /\ \A k \in 1 .. 2 : IsFinite(y[0][k]) /\ IsFinite(u[0][k])
     /\ \A i \in Rows : IsFinite(system[i].thickness) /\ IsFinite(system[i].curvature))
    => \A i \in Rows : Close(LagrangeAt(i), lagrange)

\* C11: whichever FullTrace operations ran, and whether the last one
\* returned or raised, the recorded ray count nrays is the ray dimension of
\* each of y, u, l, n and t; after rays_for_object(paraxial, wavelength, k)
\* the count is 3k.
C11_RayCountMatchesArrays ==
    /\ \A a \in FtArrays : ft.dim[a] = ft.nrays
    /\ call.op = "rays_for_object" => ft.nrays = 3 * call.start

============================================================================
